---- MODULE Spec2Model ----
(***************************************************************************)
(* A model of manga-dl.py: the metadata generator, the archive builder     *)
(* (create_cbz_archive) and the synchronisation of a local .cbz archive    *)
(* with an online chapter listing (sync_cbz_with_source).                  *)
(*                                                                         *)
(* Python strings are sequences of one-character strings, so that strip,   *)
(* split, replace, title-casing, digit filtering and lexicographic order   *)
(* are computed the way the code computes them.                            *)
(*                                                                         *)
(* Every image tag of a chapter page carries a src; a request that fails   *)
(* raises a RequestException; a step is one whole handler: the early       *)
(* returns of the sync, one call of download_chapter_images, the           *)
(* reconciliation up to the opening of the output, and the write loop.     *)
(***************************************************************************)
EXTENDS Integers, Sequences, FiniteSets, TLC

(***************************************************************************)
(* Bounds of the model.                                                    *)
(***************************************************************************)
\* most image tags the page listing of one chapter returns
MaxPages == 2
\* most chapter URLs the chapter listing returns
MaxUrls == 2
\* most entries of the archive the sync starts from
MaxEntries == 2
\* most bookmarks handed to generate_comic_info_xml on its own
MaxBookmarks == 3
\* largest page count handed to generate_comic_info_xml on its own
MaxCount == 2

\* the largest --chapter-workers and --workers looked at
MaxWorkers == 2

(***************************************************************************)
(* Characters and strings.                                                 *)
(***************************************************************************)
\* the characters the model's strings are made of, in code point order
Alphabet ==
    << " ", "\"", "&", "-", ".", "/",
       "0", "1", "2", "3", "4", "5", "6", "7", "8", "9",
       ";", "<", ">",
       "A", "B", "C", "D", "E", "F", "G", "H", "I", "J", "K", "L", "M",
       "N", "O", "P", "Q", "R", "S", "T", "U", "V", "W", "X", "Y", "Z",
       "_",
       "a", "b", "c", "d", "e", "f", "g", "h", "i", "j", "k", "l", "m",
       "n", "o", "p", "q", "r", "s", "t", "u", "v", "w", "x", "y", "z" >>

\* the place of each character in that order
OrdTable == [c \in {Alphabet[i] : i \in 1..Len(Alphabet)} |->
                CHOOSE i \in 1..Len(Alphabet) : Alphabet[i] = c]

Ord(c) == OrdTable[c]

IsDigit(c) == Ord(c) >= Ord("0") /\ Ord(c) <= Ord("9")

IsUpper(c) == Ord(c) >= Ord("A") /\ Ord(c) <= Ord("Z")

IsLower(c) == Ord(c) >= Ord("a") /\ Ord(c) <= Ord("z")

IsAlpha(c) == IsUpper(c) \/ IsLower(c)

Upper(c) == IF IsLower(c) THEN Alphabet[Ord("A") + (Ord(c) - Ord("a"))] ELSE c

Lower(c) == IF IsUpper(c) THEN Alphabet[Ord("a") + (Ord(c) - Ord("A"))] ELSE c

\* s < t for Python strings: lexicographic by code point
StrLess(s, t) ==
    LET n == IF Len(s) < Len(t) THEN Len(s) ELSE Len(t)
        diff == {i \in 1..n : s[i] # t[i]}
    IN  IF diff = {}
        THEN Len(s) < Len(t)
        ELSE LET i == CHOOSE j \in diff : \A k \in diff : j <= k
             IN  Ord(s[i]) < Ord(t[i])

\* a sequence given as a function on 1..n, as the tuple of its elements
Tuple(f) == f \o <<>>

\* the concatenation of a sequence of strings
Concat(ss) ==
    LET F[i \in 0..Len(ss)] == IF i = 0 THEN <<>> ELSE F[i - 1] \o ss[i]
    IN  F[Len(ss)]

\* s.replace(c, r) for a one-character c
Replace(s, c, r) == Concat(Tuple([i \in 1..Len(s) |-> IF s[i] = c THEN r ELSE <<s[i]>>]))

\* s.strip(c)
Strip(s, c) ==
    LET keep == {i \in 1..Len(s) : s[i] # c}
    IN  IF keep = {}
        THEN <<>>
        ELSE LET lo == CHOOSE i \in keep : \A k \in keep : i <= k
                 hi == CHOOSE i \in keep : \A k \in keep : i >= k
             IN  SubSeq(s, lo, hi)

\* s.split(c)[-1]: what follows the last c
LastField(s, c) ==
    LET at == {i \in 1..Len(s) : s[i] = c}
    IN  IF at = {}
        THEN s
        ELSE SubSeq(s, (CHOOSE i \in at : \A k \in at : i >= k) + 1, Len(s))

\* what precedes the last c, empty when s holds no c
BeforeLast(s, c) ==
    LET at == {i \in 1..Len(s) : s[i] = c}
    IN  IF at = {}
        THEN <<>>
        ELSE SubSeq(s, 1, (CHOOSE i \in at : \A k \in at : i >= k) - 1)

\* what precedes the first c, all of s when it holds no c
FirstField(s, c) ==
    LET at == {i \in 1..Len(s) : s[i] = c}
    IN  IF at = {}
        THEN s
        ELSE SubSeq(s, 1, (CHOOSE i \in at : \A k \in at : i <= k) - 1)

\* ''.join(filter(str.isdigit, s))
FilterDigits(s) == SelectSeq(s, IsDigit)

\* int(s) of a string of digits
ToInt(s) ==
    LET F[i \in 0..Len(s)] ==
            IF i = 0 THEN 0 ELSE 10 * F[i - 1] + (Ord(s[i]) - Ord("0"))
    IN  F[Len(s)]

\* s.title(): a letter that follows no letter is upper-cased, the others lower-cased
TitleCase(s) ==
    Tuple([i \in 1..Len(s) |->
            IF ~IsAlpha(s[i]) THEN s[i]
            ELSE IF i = 1 \/ ~IsAlpha(s[i - 1]) THEN Upper(s[i]) ELSE Lower(s[i])])

\* f"{n:03d}"
Pad3(n) ==
    LET d(k) == Alphabet[Ord("0") + k]
    IN  (IF n >= 1000 THEN <<d((n \div 1000) % 10)>> ELSE <<>>)
            \o <<d((n \div 100) % 10), d((n \div 10) % 10), d(n % 10)>>

\* the stable sort of the indices of keys by their key, as list.sort does
SortedIndices(keys) ==
    LET Insert(sorted, x) ==
            LET p == Cardinality({i \in 1..Len(sorted) : keys[sorted[i]] <= keys[x]})
            IN  SubSeq(sorted, 1, p) \o <<x>> \o SubSeq(sorted, p + 1, Len(sorted))
        F[i \in 0..Len(keys)] == IF i = 0 THEN <<>> ELSE Insert(F[i - 1], i)
    IN  F[Len(keys)]

Range(seq) == {seq[i] : i \in 1..Len(seq)}

RECURSIVE SomeSeq(_)
\* some sequence that lists each element of the set S once
SomeSeq(S) ==
    IF S = {} THEN <<>>
    ELSE LET x == CHOOSE y \in S : TRUE IN <<x>> \o SomeSeq(S \ {x})

\* the sequences that list each element of the set S once
Orderings(S) ==
    LET base == SomeSeq(S)
    IN  {Tuple([i \in 1..Len(base) |-> p[base[i]]]) : p \in Permutations(S)}

(***************************************************************************)
(* Paths.                                                                  *)
(***************************************************************************)
BaseName(p) == LastField(p, "/")

\* os.path.dirname: what precedes the last "/", without its trailing
\* slashes unless it is made of slashes only
DirName(p) ==
    LET at == {i \in 1..Len(p) : p[i] = "/"}
        last == CHOOSE i \in at : \A k \in at : i >= k
        keep == {i \in 1..last : p[i] # "/"}
    IN  IF at = {} THEN <<>>
        ELSE IF keep = {} THEN SubSeq(p, 1, last)
        ELSE SubSeq(p, 1, CHOOSE i \in keep : \A k \in keep : i >= k)

Join(d, f) == d \o <<"/">> \o f

\* the first component of a relative path
TopName(p) == FirstField(p, "/")

\* whether s starts with the prefix pre
StartsWith(s, pre) == Len(s) >= Len(pre) /\ SubSeq(s, 1, Len(pre)) = pre


(***************************************************************************)
(* The file system: files maps each file's path to its content, dirs holds *)
(* the directories that were created explicitly (a directory also exists   *)
(* when a path lies under it).  Paths are relative to the scratch          *)
(* directory, so os.path.join(temp_dir, d) is d.                           *)
(***************************************************************************)
IsFile(files, p) == p \in DOMAIN files

IsDir(files, dirs, d) ==
    \/ d \in dirs
    \/ \E p \in (DOMAIN files) \cup dirs : StartsWith(p, d \o <<"/">>)

\* os.listdir(d) as a set; d = <<>> is the scratch directory itself
ListDir(files, dirs, d) ==
    LET pre == IF d = <<>> THEN <<>> ELSE d \o <<"/">>
        under == {p \in (DOMAIN files) \cup dirs : Len(p) > Len(pre) /\ StartsWith(p, pre)}
    IN  {TopName(SubSeq(p, Len(pre) + 1, Len(p))) : p \in under}

RECURSIVE SortedNames(_)
\* sorted(S) for a set S of distinct names
SortedNames(S) ==
    IF S = {} THEN <<>>
    ELSE LET m == CHOOSE x \in S : \A y \in S : x = y \/ StrLess(x, y)
         IN  <<m>> \o SortedNames(S \ {m})

\* the names of the files that lie directly in folder d, sorted
FilesIn(files, dirs, d) ==
    SortedNames({n \in ListDir(files, dirs, d) : IsFile(files, Join(d, n))})

(***************************************************************************)
(* generate_comic_info_xml.  The document is its fields: the escaped       *)
(* title, the page count and one page element per index; a page carries    *)
(* at most one bookmark label and one type.                                *)
(***************************************************************************)
Amp == <<"&", "a", "m", "p", ";">>

Lt == <<"&", "l", "t", ";">>

Gt == <<"&", "g", "t", ";">>

Quot == <<"&", "q", "u", "o", "t", ";">>

EscapeTitle(s) == Replace(Replace(Replace(s, "&", Amp), "<", Lt), ">", Gt)

EscapeBookmark(s) == Replace(EscapeTitle(s), "\"", Quot)

\* a dictionary in which the first bookmark of a page index would stay
BookmarkMapFirst(bookmarks, i) ==
    LET at == {k \in 1..Len(bookmarks) : bookmarks[k][1] = i}
    IN  bookmarks[CHOOSE k \in at : \A j \in at : k <= j][2]

\* bookmark_map[i]: the title of the last bookmark whose page index is i
BookmarkMap(bookmarks, i) ==
    LET at == {k \in 1..Len(bookmarks) : bookmarks[k][1] = i}
    IN  bookmarks[CHOOSE k \in at : \A j \in at : k >= j][2]

\* a generator that would tag page 0 whatever the list
CoverOnPageZero(bookmarks) == 0

\* first_bookmark_page
FirstBookmarkPage(bookmarks) == IF bookmarks # <<>> THEN bookmarks[1][1] ELSE -1

PageElement(bookmarks, i) ==
    IF \E k \in 1..Len(bookmarks) : bookmarks[k][1] = i
    THEN [image |-> i,
          bookmark |-> <<EscapeBookmark(BookmarkMap(bookmarks, i))>>,
          type |-> <<IF i = FirstBookmarkPage(bookmarks) THEN "FrontCover" ELSE "Story">>]
    ELSE [image |-> i, bookmark |-> <<>>, type |-> <<>>]

\* a generator that would emit one page element per bookmark
generate_bookmarked_pages(manga_title, bookmarks, total_page_count) ==
    [series |-> EscapeTitle(manga_title),
     title |-> EscapeTitle(manga_title),
     pageCount |-> total_page_count,
     pages |-> Tuple([k \in 1..Len(bookmarks) |-> PageElement(bookmarks, bookmarks[k][1])])]

generate_comic_info_xml(manga_title, bookmarks, total_page_count) ==
    [series |-> EscapeTitle(manga_title),
     title |-> EscapeTitle(manga_title),
     pageCount |-> total_page_count,
     pages |-> Tuple([k \in 1..total_page_count |-> PageElement(bookmarks, k - 1)])]

(***************************************************************************)
(* An archive file is its metadata document (none or one) and its page     *)
(* entries in the order they were written; a name may occur twice, as a    *)
(* zip file allows.                                                        *)
(***************************************************************************)
ComicInfoName == <<"C", "o", "m", "i", "c", "I", "n", "f", "o", ".", "x", "m", "l">>

MacOsx == <<"_", "_", "M", "A", "C", "O", "S", "X">>

EmptyArchive == [xml |-> <<>>, entries |-> <<>>]

\* zf.namelist()
NameList(zf) ==
    (IF zf.xml # <<>> THEN <<ComicInfoName>> ELSE <<>>)
        \o Tuple([i \in 1..Len(zf.entries) |-> zf.entries[i].name])

\* the entries that count as images
IsImageName(f) ==
    /\ ~StartsWith(f, MacOsx)
    /\ ~(f # <<>> /\ f[Len(f)] = "/")
    /\ f # ComicInfoName

infer_chapter_slugs_from_zip(zf) ==
    {DirName(f) : f \in {g \in Range(NameList(zf)) : IsImageName(g) /\ DirName(g) # <<>>}}

\* zf.extractall(path=temp_dir): every entry becomes a file, a later entry
\* of the same name overwriting an earlier one
ExtractAll(files, zf) ==
    LET F[i \in 0..Len(zf.entries)] ==
            IF i = 0
            THEN IF zf.xml # <<>> THEN (ComicInfoName :> "meta") @@ files ELSE files
            ELSE (zf.entries[i].name :> zf.entries[i].data) @@ F[i - 1]
    IN  F[Len(zf.entries)]

(***************************************************************************)
(* create_cbz_archive.                                                     *)
(***************************************************************************)
\* the sort key of a chapter folder
ChapterSortKey(f) ==
    LET part == IF f # <<>> THEN LastField(BaseName(f), "-") ELSE <<"0">>
        digits == FilterDigits(part)
    IN  IF digits = <<>> THEN 0 ELSE ToInt(digits)

\* chapter_folders.sort(key=...): each key is computed once, the sort is stable
SortChapterFolders(chapter_folders) ==
    LET n == Len(chapter_folders)
        keys == Tuple([i \in 1..n |-> ChapterSortKey(chapter_folders[i])])
        perm == SortedIndices(keys)
    IN  Tuple([i \in 1..n |-> chapter_folders[perm[i]]])

CleanChapterTitle(folder) ==
    TitleCase(Replace(Replace(BaseName(folder), "-", <<" ">>), "_", <<" ">>))

\* the first loop: one bookmark per folder that is a directory, at the
\* running page index; the result is the bookmarks and the final index
CountPages(files, dirs, chapter_folders) ==
    LET F[i \in 0..Len(chapter_folders)] ==
            IF i = 0 THEN [bookmarks |-> <<>>, index |-> 0]
            ELSE LET folder == chapter_folders[i]
                     prev == F[i - 1]
                 IN  IF ~IsDir(files, dirs, folder) THEN prev
                     ELSE [bookmarks |-> Append(prev.bookmarks,
                                                <<prev.index, CleanChapterTitle(folder)>>),
                           index |-> prev.index + Len(FilesIn(files, dirs, folder))]
    IN  F[Len(chapter_folders)]

\* a create_cbz_archive that would go on whatever the count
NeverRefused(total) == FALSE

\* "if total_images == 0: ... return False"
NoImagesFound(total) == total = 0

\* the second loop: the entries written, folder by folder, each folder's
\* files in sorted order under the folder's base name
FolderEntries(files, dirs, folder) ==
    LET names == FilesIn(files, dirs, folder)
    IN  Tuple([k \in 1..Len(names) |->
                [name |-> Join(BaseName(folder), names[k]),
                 data |-> files[Join(folder, names[k])]]])

WrittenEntries(files, dirs, chapter_folders) ==
    Concat(Tuple([i \in 1..Len(chapter_folders) |->
                    FolderEntries(files, dirs, chapter_folders[i])]))

(***************************************************************************)
(* Chapter URLs and the files of a fetched chapter.                        *)
(***************************************************************************)
\* url.strip('/').split('/')[-1]
UrlSlug(url) == LastField(Strip(url, "/"), "/")

\* f"page_{i+1:03d}.jpg" for the i-th image tag, counted from 1 here
PageFileName(i) == <<"p", "a", "g", "e", "_">> \o Pad3(i) \o <<".", "j", "p", "g">>

\* a download_image that would leave a file behind whatever the request did
download_image_unchecked(files, file_path, ok) ==
    IF IsFile(files, file_path) THEN files
    ELSE (file_path :> "new") @@ files

\* download_image: an existing file is skipped, a failed request writes nothing
download_image(files, file_path, ok) ==
    IF IsFile(files, file_path) THEN files
    ELSE IF ok THEN (file_path :> "new") @@ files
    ELSE files

\* the files after the page tasks of one chapter have run; result[i] tells
\* whether the request for the i-th image succeeded
DownloadPages(files, output_dir, result) ==
    LET F[i \in 0..Len(result)] ==
            IF i = 0 THEN files
            ELSE download_image(F[i - 1], Join(output_dir, PageFileName(i)),
                                result[i] = "downloaded")
    IN  F[Len(result)]

\* os.path.splitext(os.path.basename(cbz_path))[0]
CbzPath == <<"m", ".", "c", "b", "z">>

SplitExtStem(p) == IF BeforeLast(p, ".") = <<>> THEN p ELSE BeforeLast(p, ".")

MangaTitleOf(cbz_path) == SplitExtStem(BaseName(cbz_path))

(***************************************************************************)
(* The inputs the model draws from.                                        *)
(***************************************************************************)
\* the entries an existing archive may hold: the metadata document, a page
\* at the archive root, pages in chapter directories, a page in a nested
\* directory, and a directory whose sort key and title equal another's
EntryUniverse ==
    << ComicInfoName,
       <<"0", "0", "1", ".", "j", "p", "g">>,
       <<"c", "-", "1", "/", "0", "0", "1", ".", "j", "p", "g">>,
       <<"c", "-", "2", "/", "0", "0", "1", ".", "j", "p", "g">>,
       <<"c", "-", "1", "/", "x", "/", "0", "0", "1", ".", "j", "p", "g">>,
       <<"c", "_", "1", "/", "0", "0", "1", ".", "j", "p", "g">> >>

\* the chapter URLs of the source in reading order; the last two end in
\* the same slug
UrlUniverse ==
    << <<"m", "/", "c", "-", "1", "/">>,
       <<"m", "/", "c", "-", "2">>,
       <<"n", "/", "c", "-", "2", "/">> >>

\* the slugs the caller may exclude
ExcludeUniverse == { <<"c", "-", "2">> }

\* the subsequence of seq at the indices idx
Pick(seq, idx) ==
    LET F[i \in 0..Len(seq)] ==
            IF i = 0 THEN <<>>
            ELSE IF i \in idx THEN Append(F[i - 1], seq[i]) ELSE F[i - 1]
    IN  F[Len(seq)]

\* the archive that holds the entries of EntryUniverse at the indices idx
ArchiveOf(idx) ==
    LET names == SelectSeq(Pick(EntryUniverse, idx), LAMBDA n : n # ComicInfoName)
    IN  [xml |-> IF ComicInfoName \in Range(Pick(EntryUniverse, idx))
                 THEN <<generate_comic_info_xml(MangaTitleOf(CbzPath), <<>>, Len(names))>>
                 ELSE <<>>,
         entries |-> Tuple([k \in 1..Len(names) |-> [name |-> names[k], data |-> "old"]])]

Archives ==
    {ArchiveOf(idx) : idx \in {S \in SUBSET (1..Len(EntryUniverse)) : Cardinality(S) <= MaxEntries}}

\* the listings find_all_chapter_urls may return: chapter URLs in reading order
Listings ==
    {Pick(UrlUniverse, idx) : idx \in {S \in SUBSET (1..Len(UrlUniverse)) : Cardinality(S) <= MaxUrls}}

(***************************************************************************)
(* The state of one run of sync_cbz_with_source.                           *)
(***************************************************************************)
VARIABLES
    pc,                       \* where the run is
    cbz,                      \* the file at cbz_path: <<>> or <<archive>>
    orig,                     \* the file at cbz_path when the run started
    online_urls,              \* what find_all_chapter_urls returns
    exclude,                  \* args.exclude
    urls_to_download,         \* the chapter URLs submitted to the executor
    fetched,                  \* per submitted URL, what its worker met
    downloaded_chapter_paths, \* the workers' results, in completion order
    files,                    \* the files of the scratch directory
    dirs,                     \* the directories created in it
    scratch,                  \* "none", "live" or "removed"
    chapter_folders,          \* create_cbz_archive's sorted folder list
    bookmarks,                \* create_cbz_archive's bookmarks
    total_images,             \* create_cbz_archive's page count
    opened                    \* whether cbz_path was opened for writing

\* the state of one call of update_local_cbz, which shares pc, cbz, orig,
\* bookmarks and total_images with the above
VARIABLES
    cbz_path,                 \* the path the archive lies at
    force_overwrite,          \* args.force
    custom_title,             \* args.title: <<>> for None, or <<title>>
    temp_cbz,                 \* the file at cbz_path + ".tmp": <<>> or <<archive>>
    chapters,                 \* the dict chapters, in insertion order
    sorted_chapter_keys,      \* sorted(chapters.keys())
    first                     \* what an earlier call left at cbz_path, if any

\* the state of one call of generate_comic_info_xml, which shares bookmarks
\* with the above
VARIABLES
    manga_title,              \* the title handed over
    total_page_count,         \* the page count handed over
    xml_content               \* what was returned: <<>> or <<document>>

\* the state of the chapter and page workers of one sync or one new
\* download, which shares the variables of sync_cbz_with_source
VARIABLES
    mode,                     \* "sync" or "new"
    chapter_workers,          \* args.chapter_workers
    workers,                  \* args.workers
    jobs                      \* per submitted URL, where its worker and its page tasks are

\* what only sync_cbz_with_source works on
syncVars ==
    <<online_urls, exclude, urls_to_download, fetched, downloaded_chapter_paths,
      files, dirs, scratch, chapter_folders, opened>>

\* what only update_local_cbz works on
updateVars ==
    <<cbz_path, force_overwrite, custom_title, temp_cbz, chapters,
      sorted_chapter_keys, first>>

\* what only generate_comic_info_xml works on
xmlVars == <<manga_title, total_page_count, xml_content>>

\* what only the workers work on
fetchVars == <<mode, chapter_workers, workers, jobs>>

\* what a run of sync_cbz_with_source leaves alone
idleInSync == <<updateVars, xmlVars, fetchVars>>

\* what a call of update_local_cbz leaves alone
idleInUpdate == <<syncVars, xmlVars, fetchVars>>

vars ==
    <<pc, cbz, orig, bookmarks, total_images, syncVars, updateVars, xmlVars,
      fetchVars>>

\* no call of generate_comic_info_xml is looked at on its own
XmlIdle ==
    /\ manga_title = <<>>
    /\ total_page_count = 0
    /\ xml_content = <<>>

\* the workers are not looked at one by one
FetchIdle ==
    /\ mode = "sync"
    /\ chapter_workers = 0
    /\ workers = 0
    /\ jobs = <<>>

\* no call of update_local_cbz is under way
UpdateIdle ==
    /\ cbz_path = CbzPath
    /\ force_overwrite = FALSE
    /\ custom_title = <<>>
    /\ temp_cbz = <<>>
    /\ chapters = <<>>
    /\ sorted_chapter_keys = <<>>
    /\ first = <<>>

Pending == [status |-> "pending", pages |-> <<>>]

Init ==
    /\ pc = "start"
    /\ cbz \in {<<>>} \cup {<<a>> : a \in Archives}
    /\ orig = cbz
    /\ online_urls \in Listings
    /\ exclude \in SUBSET ExcludeUniverse
    /\ urls_to_download = <<>>
    /\ fetched = <<>>
    /\ downloaded_chapter_paths = <<>>
    /\ files = <<>>
    /\ dirs = {}
    /\ scratch = "none"
    /\ chapter_folders = <<>>
    /\ bookmarks = <<>>
    /\ total_images = 0
    /\ opened = FALSE
    /\ UpdateIdle
    /\ XmlIdle
    /\ FetchIdle

(***************************************************************************)
(* sync_cbz_with_source up to the dispatch of the chapter workers.         *)
(***************************************************************************)
local_slugs == infer_chapter_slugs_from_zip(cbz[1])

\* the listing with no exclusion applied
UnfilteredUrls == online_urls

\* online_urls after the exclusion filter
FilteredUrls ==
    IF exclude # {}
    THEN SelectSeq(online_urls, LAMBDA u : UrlSlug(u) \notin exclude)
    ELSE online_urls

\* slug_to_url: a later URL of the same slug replaces an earlier one
SlugToUrl(urls, slug) ==
    LET at == {i \in 1..Len(urls) : UrlSlug(urls[i]) = slug}
    IN  urls[CHOOSE i \in at : \A j \in at : i >= j]

online_slugs == {UrlSlug(u) : u \in Range(FilteredUrls)}

\* a difference that would forget what the archive holds
AllOnlineSlugs == SortedNames(online_slugs)

\* sorted(list(online_slugs - local_slugs))
missing_slugs == SortedNames(online_slugs \ local_slugs)

UrlsToDownload ==
    LET slugs == missing_slugs
        urls == FilteredUrls
    IN  Tuple([i \in 1..Len(slugs) |-> SlugToUrl(urls, slugs[i])])

\* "Error: Local file not found"
SyncNotFound ==
    /\ pc = "start"
    /\ cbz = <<>>
    /\ pc' = "NotFound"
    /\ UNCHANGED <<cbz, orig, online_urls, exclude, urls_to_download, fetched,
                   downloaded_chapter_paths, files, dirs, scratch,
                   chapter_folders, bookmarks, total_images, opened>>
    /\ UNCHANGED idleInSync

\* "Could not retrieve chapter list from source. Aborting sync."
SyncAborted ==
    /\ pc = "start"
    /\ cbz # <<>>
    /\ online_urls = <<>>
    /\ pc' = "Aborted"
    /\ UNCHANGED <<cbz, orig, online_urls, exclude, urls_to_download, fetched,
                   downloaded_chapter_paths, files, dirs, scratch,
                   chapter_folders, bookmarks, total_images, opened>>
    /\ UNCHANGED idleInSync

\* "CBZ is already up-to-date. No new chapters found."
SyncUpToDate ==
    /\ pc = "start"
    /\ cbz # <<>>
    /\ online_urls # <<>>
    /\ missing_slugs = <<>>
    /\ pc' = "UpToDate"
    /\ UNCHANGED <<cbz, orig, online_urls, exclude, urls_to_download, fetched,
                   downloaded_chapter_paths, files, dirs, scratch,
                   chapter_folders, bookmarks, total_images, opened>>
    /\ UNCHANGED idleInSync

\* the scratch directory is created and one worker per missing chapter submitted
SyncDispatch ==
    /\ pc = "start"
    /\ cbz # <<>>
    /\ online_urls # <<>>
    /\ missing_slugs # <<>>
    /\ urls_to_download' = UrlsToDownload
    /\ fetched' = [u \in Range(UrlsToDownload) |-> Pending]
    /\ scratch' = "live"
    /\ pc' = "fetching"
    /\ UNCHANGED <<cbz, orig, online_urls, exclude, downloaded_chapter_paths,
                   files, dirs, chapter_folders, bookmarks, total_images, opened>>
    /\ UNCHANGED idleInSync

(***************************************************************************)
(* download_chapter_images, one call per submitted URL.  The chapter's     *)
(* directory is created before the chapter page is requested.  The main    *)
(* thread takes the results as they complete, so the order of these        *)
(* actions is the order of downloaded_chapter_paths.                       *)
(***************************************************************************)
\* the request for the chapter page raises a RequestException: None
DownloadChapterError(url) ==
    /\ pc = "fetching"
    /\ url \in DOMAIN fetched
    /\ fetched[url].status = "pending"
    /\ dirs' = dirs \cup {UrlSlug(url)}
    /\ fetched' = [fetched EXCEPT ![url] = [status |-> "error", pages |-> <<>>]]
    /\ UNCHANGED <<pc, cbz, orig, online_urls, exclude, urls_to_download,
                   downloaded_chapter_paths, files, scratch, chapter_folders,
                   bookmarks, total_images, opened>>
    /\ UNCHANGED idleInSync

\* the chapter page holds no image tag: None
DownloadChapterNoPages(url) ==
    /\ pc = "fetching"
    /\ url \in DOMAIN fetched
    /\ fetched[url].status = "pending"
    /\ dirs' = dirs \cup {UrlSlug(url)}
    /\ fetched' = [fetched EXCEPT ![url] = [status |-> "nopages", pages |-> <<>>]]
    /\ UNCHANGED <<pc, cbz, orig, online_urls, exclude, urls_to_download,
                   downloaded_chapter_paths, files, scratch, chapter_folders,
                   bookmarks, total_images, opened>>
    /\ UNCHANGED idleInSync

\* the chapter page holds n image tags; each image request succeeds or
\* fails; the directory is returned whatever the requests did
DownloadChapterPages(url) ==
    /\ pc = "fetching"
    /\ url \in DOMAIN fetched
    /\ fetched[url].status = "pending"
    /\ \E n \in 1..MaxPages :
         \E result \in [1..n -> {"downloaded", "failed"}] :
            /\ dirs' = dirs \cup {UrlSlug(url)}
            /\ files' = DownloadPages(files, UrlSlug(url), result)
            /\ fetched' = [fetched EXCEPT ![url] = [status |-> "listed", pages |-> result]]
            /\ downloaded_chapter_paths' = Append(downloaded_chapter_paths, UrlSlug(url))
    /\ UNCHANGED <<pc, cbz, orig, online_urls, exclude, urls_to_download,
                   scratch, chapter_folders, bookmarks, total_images, opened>>
    /\ UNCHANGED idleInSync

(***************************************************************************)
(* sync_cbz_with_source after the workers: the archive is extracted into   *)
(* the scratch directory, the directories of the scratch directory are     *)
(* listed (in the order the file system gives them) and create_cbz_archive *)
(* is called with cbz_path as its output.                                  *)
(***************************************************************************)
AllSettled == \A u \in DOMAIN fetched : fetched[u].status # "pending"

ExtractedFiles == ExtractAll(files, cbz[1])

\* the folder lists create_cbz_archive may be handed, one per listing order
\* of the directories that lie in the scratch directory holding extracted
AllChapterFolders(extracted) ==
    LET found == {d \in ListDir(extracted, dirs, <<>>) : IsDir(extracted, dirs, d)}
    IN  {order \o downloaded_chapter_paths : order \in Orderings(found)}

\* the sorted folder lists create_cbz_archive may work on
SortedChapterFolders(extracted) ==
    {SortChapterFolders(all) : all \in AllChapterFolders(extracted)}

\* the sort and the first loop of create_cbz_archive, once per folder list
\* it may be handed
Countings(extracted) ==
    {[folders |-> sorted,
      counted |-> CountPages(extracted, dirs, sorted),
      extracted |-> extracted] : sorted \in SortedChapterFolders(extracted)}

\* create_cbz_archive up to the opening of its output.  When no image is
\* counted it returns False before the output is opened ("Warning: No images
\* found", "Sync failed"); otherwise the metadata is generated and the
\* output is opened with mode 'w', which empties the file at cbz_path
SyncReconcile ==
    /\ pc = "fetching"
    /\ AllSettled
    /\ \E run \in Countings(ExtractedFiles) :
         /\ chapter_folders' = run.folders
         /\ bookmarks' = run.counted.bookmarks
         /\ total_images' = run.counted.index
         /\ IF NoImagesFound(run.counted.index)
            THEN /\ pc' = "Failed"
                 /\ files' = <<>>
                 /\ dirs' = {}
                 /\ scratch' = "removed"
                 /\ UNCHANGED <<cbz, opened>>
            ELSE /\ pc' = "writing"
                 /\ files' = run.extracted
                 /\ cbz' = <<EmptyArchive>>
                 /\ opened' = TRUE
                 /\ UNCHANGED <<dirs, scratch>>
    /\ UNCHANGED <<orig, online_urls, exclude, urls_to_download, fetched,
                   downloaded_chapter_paths>>
    /\ UNCHANGED idleInSync

\* the archive create_cbz_archive writes when nothing raises
BuiltArchive ==
    [xml |-> <<generate_comic_info_xml(MangaTitleOf(CbzPath), bookmarks, total_images)>>,
     entries |-> WrittenEntries(files, dirs, chapter_folders)]

\* what the output holds when a write raises after k of the items of built
\* (the metadata, then the entries) were written
PartialWrites(built) ==
    {[xml |-> IF k = 0 THEN <<>> ELSE built.xml,
      entries |-> IF k = 0 THEN <<>> ELSE SubSeq(built.entries, 1, k - 1)] :
        k \in 0..Len(built.entries)}

\* the write loop: the metadata, then the entries.  Either every item is
\* written (True, "Sync complete"), or a write raises after k items were
\* written, the exception is caught and the output closed (False, "Sync
\* failed").  The scratch directory is removed on the way out.
CreateWrite ==
    /\ pc = "writing"
    /\ \/ /\ cbz' = <<BuiltArchive>>
          /\ pc' = "Done"
       \/ /\ cbz' \in {<<part>> : part \in PartialWrites(BuiltArchive)}
          /\ pc' = "Failed"
    /\ files' = <<>>
    /\ dirs' = {}
    /\ scratch' = "removed"
    /\ UNCHANGED <<orig, online_urls, exclude, urls_to_download, fetched,
                   downloaded_chapter_paths, chapter_folders, bookmarks,
                   total_images, opened>>
    /\ UNCHANGED idleInSync

Next ==
    \/ SyncNotFound
    \/ SyncAborted
    \/ SyncUpToDate
    \/ SyncDispatch
    \/ \E url \in Range(UrlUniverse) : DownloadChapterError(url)
    \/ \E url \in Range(UrlUniverse) : DownloadChapterNoPages(url)
    \/ \E url \in Range(UrlUniverse) : DownloadChapterPages(url)
    \/ SyncReconcile
    \/ CreateWrite

Spec == Init /\ [][Next]_vars

(***************************************************************************)
(* What the claims speak of.                                               *)
(***************************************************************************)
\* the names of the page entries of an archive
EntryNames(zf) == {zf.entries[i].name : i \in 1..Len(zf.entries)}

\* the directories of the page entries of the archive the run started from
OrigDirs == {DirName(n) : n \in {m \in EntryNames(orig[1]) : DirName(m) # <<>>}}

\* the slugs of the listing
RemoteSlugs == {UrlSlug(online_urls[i]) : i \in 1..Len(online_urls)}

\* the slugs whose worker met a fetch error or an empty page list
FailedSlugs == {UrlSlug(u) : u \in {v \in DOMAIN fetched : fetched[v].status \in {"error", "nopages"}}}

\* the indices of the image requests of u that succeeded
Succeeded(u) == {i \in 1..Len(fetched[u].pages) : fetched[u].pages[i] = "downloaded"}

\* the names of the files that lie directly in the scratch directory's folder d
NamesIn(d) == Range(FilesIn(files, dirs, d))

Reconciled == pc \in {"writing", "Done", "Failed"}

(***************************************************************************)
(* C1: the rebuilt archive is built apart from the original and replaces   *)
(* it only after the build succeeded: while the build runs the file at     *)
(* cbz_path still holds its prior content, and after a failed build it     *)
(* holds its prior content and the scratch directory is gone.              *)
(***************************************************************************)
C1_AtomicRebuild ==
    /\ pc = "writing" => cbz = orig
    /\ pc = "Failed" => (cbz = orig /\ scratch # "live")

(***************************************************************************)
(* C2: the chapter list handed to create_cbz_archive holds no folder       *)
(* twice, and no page entry is written into the archive twice.             *)
(***************************************************************************)
C2_UniqueSlugs ==
    /\ \A i, j \in 1..Len(chapter_folders) :
         i # j => BaseName(chapter_folders[i]) # BaseName(chapter_folders[j])
    /\ pc = "Done" => Cardinality(EntryNames(cbz[1])) = Len(cbz[1].entries)

(***************************************************************************)
(* C3: after a sync that reaches Done every page entry of the prior        *)
(* archive is an entry of the rebuilt archive.                             *)
(***************************************************************************)
C3_PriorPagesKept ==
    pc = "Done" => EntryNames(orig[1]) \subseteq EntryNames(cbz[1])

(***************************************************************************)
(* C4: the page count recorded in the metadata of a written archive is     *)
(* the number of distinct page entries of the archive.                     *)
(***************************************************************************)
C4_PageCountExact ==
    pc = "Done" => cbz[1].xml[1].pageCount = Cardinality(EntryNames(cbz[1]))

(***************************************************************************)
(* C5: when the chapter folders handed to create_cbz_archive hold no page  *)
(* at all, the step that reconciles ends the run in Failed with a count of *)
(* zero, the file at cbz_path was not opened for writing and still holds   *)
(* its prior content, and the scratch directory is gone.                   *)
(***************************************************************************)
\* the files that lie directly in a top-level directory of the file system fs
PageFiles(fs) == {p \in DOMAIN fs : DirName(p) # <<>> /\ DirName(DirName(p)) = <<>>}

C5_ZeroResultRefusal ==
    [][(pc = "fetching" /\ AllSettled /\ PageFiles(ExtractedFiles) = {})
          => (/\ pc' = "Failed"
              /\ total_images' = 0
              /\ cbz' = orig
              /\ opened' = FALSE
              /\ scratch' = "removed")]_vars

\* a run refused for want of pages although a chapter directory was returned
C5_Witness ==
    /\ pc = "Failed"
    /\ total_images = 0
    /\ ~opened
    /\ cbz = orig
    /\ downloaded_chapter_paths # <<>>

(***************************************************************************)
(* C6 as stated: the directory of a fetched chapter holds its pages        *)
(* numbered 1..k without a gap, k being the number of pages that were      *)
(* fetched.                                                                *)
(***************************************************************************)
C6_ContiguousNumbering ==
    pc = "fetching" =>
        \A u \in DOMAIN fetched :
            fetched[u].status = "listed" =>
                NamesIn(UrlSlug(u)) =
                    {PageFileName(i) : i \in 1..Cardinality(Succeeded(u))}

(***************************************************************************)
(* C6 as the code has it: the directory of a fetched chapter holds exactly *)
(* the pages that were fetched, each under the name of its position in the *)
(* source, so a failed page leaves a gap; the run goes on to reconcile;    *)
(* the rebuilt archive keeps these names, and the page indices of its      *)
(* metadata run 0..PageCount-1 over the entries as written.                *)
(***************************************************************************)
C6_SourcePositionsKept ==
    /\ pc = "fetching" =>
          \A u \in DOMAIN fetched :
              fetched[u].status = "listed" =>
                  NamesIn(UrlSlug(u)) = {PageFileName(i) : i \in Succeeded(u)}
    /\ (pc = "fetching" /\ AllSettled) => Countings(ExtractedFiles) # {}
    /\ pc = "Done" =>
          /\ \A u \in DOMAIN fetched :
                \A i \in 1..Len(fetched[u].pages) :
                    Join(UrlSlug(u), PageFileName(i)) \in EntryNames(cbz[1])
                        <=> i \in Succeeded(u)
          /\ cbz[1].xml[1].pageCount = Len(cbz[1].entries)
          /\ Len(cbz[1].xml[1].pages) = Len(cbz[1].entries)
          /\ \A k \in 1..Len(cbz[1].xml[1].pages) : cbz[1].xml[1].pages[k].image = k - 1

\* an archive rebuilt from a chapter whose first page failed and whose
\* second page was fetched
C6_Witness ==
    /\ pc = "Done"
    /\ \E u \in DOMAIN fetched :
          /\ fetched[u].status = "listed"
          /\ Len(fetched[u].pages) = 2
          /\ Succeeded(u) = {2}
          /\ Join(UrlSlug(u), PageFileName(2)) \in EntryNames(cbz[1])

(***************************************************************************)
(* C7: a chapter directory is returned, and enters the fetched set, only   *)
(* when at least one of the chapter's pages was fetched.                   *)
(***************************************************************************)
C7_AcquiredOnlyWithPage ==
    \A u \in DOMAIN fetched :
        (fetched[u].status = "listed" /\ Succeeded(u) = {})
            => UrlSlug(u) \notin Range(downloaded_chapter_paths)

(***************************************************************************)
(* C8: the chapters submitted for fetching are the slugs of the listing    *)
(* that are neither excluded nor a directory of the archive, each once and *)
(* under a URL of the listing; no worker runs, no directory is made and no *)
(* path is returned for any other slug.                                    *)
(***************************************************************************)
\* the slugs of the URLs that were submitted
DispatchedSlugs == {UrlSlug(urls_to_download[i]) : i \in 1..Len(urls_to_download)}

C8_DiffDispatch ==
    /\ pc \in {"fetching", "writing", "Done", "Failed"} =>
          /\ DispatchedSlugs = (RemoteSlugs \ exclude) \ OrigDirs
          /\ \A i, j \in 1..Len(urls_to_download) :
                i # j => UrlSlug(urls_to_download[i]) # UrlSlug(urls_to_download[j])
          /\ Range(urls_to_download) \subseteq Range(online_urls)
          /\ DOMAIN fetched = Range(urls_to_download)
    /\ dirs \subseteq DispatchedSlugs
    /\ Range(downloaded_chapter_paths) \subseteq DispatchedSlugs
    /\ \A i, j \in 1..Len(downloaded_chapter_paths) :
          i # j => downloaded_chapter_paths[i] # downloaded_chapter_paths[j]

\* a listing of two chapters, one of them in the archive, the other fetched
C8_Witness ==
    /\ pc = "fetching"
    /\ AllSettled
    /\ RemoteSlugs \cap OrigDirs # {}
    /\ Len(urls_to_download) = 1
    /\ Len(online_urls) = 2

(***************************************************************************)
(* C9: a run that got an empty listing ends in Aborted, a run whose        *)
(* listing holds no slug that is neither excluded nor in the archive ends  *)
(* in UpToDate; in both nothing was submitted, no worker ran, no scratch   *)
(* directory was made, the file at cbz_path was not opened for writing and *)
(* holds its prior content, and the run takes no further step.             *)
(***************************************************************************)
C9_NothingToFetch ==
    /\ [](/\ (pc \notin {"start", "NotFound"} /\ online_urls = <<>>) => pc = "Aborted"
          /\ (/\ pc \notin {"start", "NotFound"}
              /\ online_urls # <<>>
              /\ (RemoteSlugs \ exclude) \subseteq OrigDirs) => pc = "UpToDate"
          /\ pc \in {"Aborted", "UpToDate"} =>
                /\ urls_to_download = <<>>
                /\ fetched = <<>>
                /\ downloaded_chapter_paths = <<>>
                /\ scratch = "none"
                /\ files = <<>>
                /\ dirs = {}
                /\ ~opened
                /\ cbz = orig)
    /\ [][pc \notin {"Aborted", "UpToDate"}]_vars

\* a run that found every listed chapter in the archive
C9_Witness ==
    /\ pc = "UpToDate"
    /\ RemoteSlugs # {}
    /\ RemoteSlugs \subseteq OrigDirs
    /\ cbz = orig

(***************************************************************************)
(* C10: a chapter whose worker met a fetch error or an empty page list     *)
(* returns no path; the other workers run to their end and the run goes on *)
(* to reconcile; the rebuilt archive holds no entry under the chapter's    *)
(* slug, and its metadata is the document generated from the bookmarks of  *)
(* the other folders alone.                                                *)
(***************************************************************************)
C10_ChapterFailureIsolated ==
    /\ FailedSlugs \cap Range(downloaded_chapter_paths) = {}
    /\ (pc = "fetching" /\ AllSettled /\ FailedSlugs # {}) =>
          Countings(ExtractedFiles) # {}
    /\ Reconciled =>
          /\ AllSettled
          /\ \A u \in DOMAIN fetched :
                fetched[u].status = "listed" =>
                    UrlSlug(u) \in Range(downloaded_chapter_paths)
    /\ pc = "Done" =>
          /\ \A n \in EntryNames(cbz[1]) : TopName(n) \notin FailedSlugs
          /\ Len(bookmarks) = Len(chapter_folders)
          /\ total_images = Len(cbz[1].entries)
          /\ cbz[1].xml =
                <<generate_comic_info_xml(
                     MangaTitleOf(CbzPath),
                     Pick(bookmarks, {i \in 1..Len(bookmarks) :
                                         chapter_folders[i] \notin FailedSlugs}),
                     total_images)>>

\* an archive rebuilt after the chapter that sorts first failed and another
\* chapter was fetched
C10_Witness ==
    /\ pc = "Done"
    /\ chapter_folders # <<>>
    /\ chapter_folders[1] \in FailedSlugs
    /\ \E u \in DOMAIN fetched : fetched[u].status = "listed" /\ Succeeded(u) # {}

(***************************************************************************)
(* C11: for the archive the run started from and the results the workers   *)
(* met, what create_cbz_archive produces is the same for every order in    *)
(* which the workers complete and every order in which the scratch         *)
(* directory is listed.                                                    *)
(***************************************************************************)
\* what create_cbz_archive makes of the folder list all over the files fs
ArchiveFrom(fs, all) ==
    LET sorted == SortChapterFolders(all)
        counted == CountPages(fs, dirs, sorted)
    IN  IF NoImagesFound(counted.index) THEN <<>>
        ELSE <<[xml |-> <<generate_comic_info_xml(MangaTitleOf(CbzPath),
                                                  counted.bookmarks, counted.index)>>,
                entries |-> WrittenEntries(fs, dirs, sorted)]>>

\* the archives the settled run may end with, over the listing orders of
\* the scratch directory and the completion orders of the workers
PossibleArchives ==
    LET fs == ExtractedFiles
        found == {d \in ListDir(fs, dirs, <<>>) : IsDir(fs, dirs, d)}
    IN  {ArchiveFrom(fs, order \o done) :
            order \in Orderings(found),
            done \in Orderings(Range(downloaded_chapter_paths))}

C11_OrderIndependent ==
    (pc = "fetching" /\ AllSettled) => Cardinality(PossibleArchives) = 1

(***************************************************************************)
(* update_local_cbz: the analysis of the archive.  The dict chapters is    *)
(* the sequence of its items in insertion order, each a key and the list   *)
(* of the image paths filed under it.                                      *)
(***************************************************************************)
LowerStr(s) == Tuple([i \in 1..Len(s) |-> Lower(s[i])])

EndsWith(s, suf) ==
    Len(s) >= Len(suf) /\ SubSeq(s, Len(s) - Len(suf) + 1, Len(s)) = suf

CbzSuffix == <<".", "c", "b", "z">>

\* the digits of s from position k on, as far as they go
DigitRun(s, k) ==
    LET stop == {i \in k..Len(s) : ~IsDigit(s[i])}
        end == IF stop = {} THEN Len(s)
               ELSE (CHOOSE i \in stop : \A j \in stop : i <= j) - 1
    IN  SubSeq(s, k, end)

\* the alternatives of ([cv]|ch|chapter) in the order the regex tries them
ChapterWords ==
    << <<"c">>, <<"v">>, <<"c", "h">>, <<"c", "h", "a", "p", "t", "e", "r">> >>

\* group 2 of the match of w \s? (\d+) at position i of s, <<>> when there
\* is none; case is ignored
MatchWord(s, i, w) ==
    IF i + Len(w) - 1 > Len(s) \/ LowerStr(SubSeq(s, i, i + Len(w) - 1)) # w
    THEN <<>>
    ELSE LET j == i + Len(w)
             k == IF j <= Len(s) /\ s[j] = " " THEN j + 1 ELSE j
         IN  DigitRun(s, k)

\* group 2 of the match of the regex at position i of s
MatchAt(s, i) ==
    LET hits == {n \in 1..Len(ChapterWords) : MatchWord(s, i, ChapterWords[n]) # <<>>}
    IN  IF hits = {} THEN <<>>
        ELSE MatchWord(s, i, ChapterWords[CHOOSE n \in hits : \A m \in hits : n <= m])

\* int(match.group(2)) if match else 0, for chapter_regex.search(name)
ChapterNum(name) ==
    LET at == {i \in 1..Len(name) : MatchAt(name, i) # <<>>}
    IN  IF at = {} THEN 0
        ELSE ToInt(MatchAt(name, CHOOSE i \in at : \A j \in at : i <= j))

\* f"Chapter {chapter_num:03d}"
ChapterKey(n) == <<"C", "h", "a", "p", "t", "e", "r", " ">> \o Pad3(n)

\* image_files
ImageFiles(zf) == SortedNames({f \in Range(NameList(zf)) : IsImageName(f)})

\* len(parent_dirs) == 1 and '' in parent_dirs
IsFlat(image_files) == {DirName(f) : f \in Range(image_files)} = {<<>>}

\* chapters.setdefault(key, []).append(item)
SetDefaultAppend(chs, key, item) ==
    IF \E k \in 1..Len(chs) : chs[k].key = key
    THEN Tuple([k \in 1..Len(chs) |->
                  IF chs[k].key = key
                  THEN [key |-> key, items |-> Append(chs[k].items, item)]
                  ELSE chs[k]])
    ELSE Append(chs, [key |-> key, items |-> <<item>>])

\* the dict chapters after either grouping loop
GroupChapters(image_files) ==
    LET flat == IsFlat(image_files)
        KeyOf(f) == IF flat THEN ChapterKey(ChapterNum(BaseName(f))) ELSE DirName(f)
        F[i \in 0..Len(image_files)] ==
            IF i = 0 THEN <<>>
            ELSE SetDefaultAppend(F[i - 1], KeyOf(image_files[i]), image_files[i])
    IN  F[Len(image_files)]

\* a grouping that would take any result for one
NeverDegenerate(chs) == FALSE

\* len(chapters) == 1 and "Chapter 000" in chapters
InferenceFailed(chs) == Len(chs) = 1 /\ chs[1].key = ChapterKey(0)

\* sorted(chapters.keys())
SortedKeys(chs) == SortedNames({chs[k].key : k \in 1..Len(chs)})

\* chapters[key]
ItemsOf(chs, key) == chs[CHOOSE k \in 1..Len(chs) : chs[k].key = key].items

CleanKeyTitle(key) == TitleCase(Replace(Replace(key, "-", <<" ">>), "_", <<" ">>))

\* the bookmark loop: one bookmark per key in sorted order
UpdateBookmarks(chs, keys) ==
    LET F[i \in 0..Len(keys)] ==
            IF i = 0 THEN [bookmarks |-> <<>>, index |-> 0]
            ELSE [bookmarks |-> Append(F[i - 1].bookmarks,
                                       <<F[i - 1].index, CleanKeyTitle(keys[i])>>),
                  index |-> F[i - 1].index + Len(ItemsOf(chs, keys[i]))]
    IN  F[Len(keys)]

\* custom_title or the file name's stem with "-" as " ", title-cased
UpdateTitle(custom, path) ==
    IF custom # <<>> THEN custom[1]
    ELSE TitleCase(Replace(SplitExtStem(BaseName(path)), "-", <<" ">>))

\* original_zf.read(name)
ReadEntry(zf, name) ==
    LET at == {i \in 1..Len(zf.entries) : zf.entries[i].name = name}
    IN  zf.entries[CHOOSE i \in at : \A j \in at : i >= j].data

\* the entries written to the temporary archive: chapters.items() in
\* insertion order, each image under f"{chapter_folder}/{basename}"
RebuiltEntries(chs, zf) ==
    Concat(Tuple([k \in 1..Len(chs) |->
        Tuple([n \in 1..Len(chs[k].items) |->
            [name |-> Join(chs[k].key, BaseName(chs[k].items[n])),
             data |-> ReadEntry(zf, chs[k].items[n])]])]))

(***************************************************************************)
(* update_local_cbz: one call, and a second call with force on what the    *)
(* first call left.  The check of total_images == 0 (line 141) cannot      *)
(* succeed, as every key of chapters holds at least one image.             *)
(***************************************************************************)
\* the entries the archive handed to update_local_cbz may hold: the
\* metadata document, flat files of chapter 2, of chapter 1 and of no
\* chapter, and files in the directories c-2 and c-10
UpdateEntryUniverse ==
    << ComicInfoName,
       <<"a", "_", "c", "2", ".", "j", "p", "g">>,
       <<"b", "_", "c", "1", ".", "j", "p", "g">>,
       <<"x", ".", "j", "p", "g">>,
       <<"c", "-", "2", "/", "1", ".", "j", "p", "g">>,
       <<"c", "-", "1", "0", "/", "1", ".", "j", "p", "g">> >>

UpdateArchiveOf(idx) ==
    LET names == SelectSeq(Pick(UpdateEntryUniverse, idx), LAMBDA n : n # ComicInfoName)
    IN  [xml |-> IF ComicInfoName \in Range(Pick(UpdateEntryUniverse, idx))
                 THEN <<generate_comic_info_xml(MangaTitleOf(CbzPath), <<>>, Len(names))>>
                 ELSE <<>>,
         entries |-> Tuple([k \in 1..Len(names) |-> [name |-> names[k], data |-> "old"]])]

UpdateArchives ==
    {UpdateArchiveOf(idx) :
        idx \in {S \in SUBSET (1..Len(UpdateEntryUniverse)) : Cardinality(S) <= MaxEntries}}

\* the paths update_local_cbz may be called with
PathUniverse == {CbzPath, <<"n", ".", "z", "i", "p">>}

\* the titles the caller may give
TitleUniverse == {<<>>, <<<<"T">>>>}

\* no run of sync_cbz_with_source is under way
SyncIdle ==
    /\ online_urls = <<>>
    /\ exclude = {}
    /\ urls_to_download = <<>>
    /\ fetched = <<>>
    /\ downloaded_chapter_paths = <<>>
    /\ files = <<>>
    /\ dirs = {}
    /\ scratch = "none"
    /\ chapter_folders = <<>>
    /\ opened = FALSE

InitUpdate ==
    /\ pc = "start"
    /\ cbz \in {<<>>} \cup {<<a>> : a \in UpdateArchives}
    /\ orig = cbz
    /\ bookmarks = <<>>
    /\ total_images = 0
    /\ cbz_path \in PathUniverse
    /\ force_overwrite \in BOOLEAN
    /\ custom_title \in TitleUniverse
    /\ temp_cbz = <<>>
    /\ chapters = <<>>
    /\ sorted_chapter_keys = <<>>
    /\ first = <<>>
    /\ SyncIdle
    /\ XmlIdle
    /\ FetchIdle

\* the analysis of the archive zf: the dict, its sorted keys, the bookmarks
\* and the page count
Analysis(zf) ==
    LET chs == GroupChapters(ImageFiles(zf))
        keys == SortedKeys(chs)
    IN  [chapters |-> chs, keys |-> keys, counted |-> UpdateBookmarks(chs, keys)]

\* the archive written to the temporary path when nothing raises
RebuiltArchive ==
    [xml |-> <<generate_comic_info_xml(UpdateTitle(custom_title, cbz_path),
                                       bookmarks, total_images)>>,
     entries |-> RebuiltEntries(chapters, cbz[1])]

\* a handler that would leave the temporary file behind
KeepTemp(t) == t

\* os.remove(temp_cbz_path) when the path exists
RemoveTemp(t) == <<>>

IsCbzPath == EndsWith(LowerStr(cbz_path), CbzSuffix)

\* "Skipping non-CBZ file"
UpdateSkipNonCbz ==
    /\ pc = "start"
    /\ ~IsCbzPath
    /\ pc' = "SkipNonCbz"
    /\ UNCHANGED <<cbz, orig, bookmarks, total_images, updateVars, idleInUpdate>>

\* "Error: ... is not a valid zip file."
UpdateNotZip ==
    /\ pc = "start"
    /\ IsCbzPath
    /\ cbz = <<>>
    /\ pc' = "ErrorNotZip"
    /\ UNCHANGED <<cbz, orig, bookmarks, total_images, updateVars, idleInUpdate>>

\* "Skipping: ComicInfo.xml already exists."
UpdateSkipHasXml ==
    /\ pc = "start"
    /\ IsCbzPath
    /\ cbz # <<>>
    /\ cbz[1].xml # <<>> /\ ~force_overwrite
    /\ pc' = "SkipHasXml"
    /\ UNCHANGED <<cbz, orig, bookmarks, total_images, updateVars, idleInUpdate>>

\* "Skipping: No image files found."
UpdateSkipNoImages ==
    /\ pc = "start"
    /\ IsCbzPath
    /\ cbz # <<>>
    /\ ~(cbz[1].xml # <<>> /\ ~force_overwrite)
    /\ ImageFiles(cbz[1]) = <<>>
    /\ pc' = "SkipNoImages"
    /\ UNCHANGED <<cbz, orig, bookmarks, total_images, updateVars, idleInUpdate>>

\* the archive can be analysed: the early returns are passed
Analysable ==
    /\ pc = "start"
    /\ IsCbzPath
    /\ cbz # <<>>
    /\ ~(cbz[1].xml # <<>> /\ ~force_overwrite)
    /\ ImageFiles(cbz[1]) # <<>>

\* "Skipping: Could not infer chapters from filenames."
UpdateSkipInference ==
    /\ Analysable
    /\ IsFlat(ImageFiles(cbz[1]))
    /\ InferenceFailed(Analysis(cbz[1]).chapters)
    /\ chapters' = Analysis(cbz[1]).chapters
    /\ pc' = "SkipInference"
    /\ UNCHANGED <<cbz, orig, bookmarks, total_images, cbz_path, force_overwrite,
                   custom_title, temp_cbz, sorted_chapter_keys, first, idleInUpdate>>

\* reading the archive raises: the handler finds no temporary file
UpdateReadRaises ==
    /\ Analysable
    /\ pc' = "Error"
    /\ UNCHANGED <<cbz, orig, bookmarks, total_images, updateVars, idleInUpdate>>

\* the analysis, up to the opening of the temporary archive for writing
UpdateAnalyse ==
    /\ Analysable
    /\ ~(IsFlat(ImageFiles(cbz[1])) /\ InferenceFailed(Analysis(cbz[1]).chapters))
    /\ chapters' = Analysis(cbz[1]).chapters
    /\ sorted_chapter_keys' = Analysis(cbz[1]).keys
    /\ bookmarks' = Analysis(cbz[1]).counted.bookmarks
    /\ total_images' = Analysis(cbz[1]).counted.index
    /\ temp_cbz' = <<EmptyArchive>>
    /\ pc' = "building"
    /\ UNCHANGED <<cbz, orig, cbz_path, force_overwrite, custom_title, first,
                   idleInUpdate>>

\* the metadata and every image are written to the temporary archive
UpdateWrite ==
    /\ pc = "building"
    /\ temp_cbz' = <<RebuiltArchive>>
    /\ pc' = "built"
    /\ UNCHANGED <<cbz, orig, bookmarks, total_images, cbz_path, force_overwrite,
                   custom_title, chapters, sorted_chapter_keys, first, idleInUpdate>>

\* a read or a write raises after some items were written
UpdateWriteRaises ==
    /\ pc = "building"
    /\ temp_cbz' \in {<<part>> : part \in PartialWrites(RebuiltArchive)}
    /\ pc' = "raised"
    /\ UNCHANGED <<cbz, orig, bookmarks, total_images, cbz_path, force_overwrite,
                   custom_title, chapters, sorted_chapter_keys, first, idleInUpdate>>

\* shutil.move(temp_cbz_path, cbz_path): "Success"
UpdateMove ==
    /\ pc = "built"
    /\ cbz' = temp_cbz
    /\ temp_cbz' = <<>>
    /\ pc' = "Success"
    /\ UNCHANGED <<orig, bookmarks, total_images, cbz_path, force_overwrite,
                   custom_title, chapters, sorted_chapter_keys, first, idleInUpdate>>

\* shutil.move raises
UpdateMoveRaises ==
    /\ pc = "built"
    /\ pc' = "raised"
    /\ UNCHANGED <<cbz, orig, bookmarks, total_images, updateVars, idleInUpdate>>

\* the exception handler: the temporary file is removed, "Error"
UpdateCleanup ==
    /\ pc = "raised"
    /\ temp_cbz' = RemoveTemp(temp_cbz)
    /\ pc' = "Error"
    /\ UNCHANGED <<cbz, orig, bookmarks, total_images, cbz_path, force_overwrite,
                   custom_title, chapters, sorted_chapter_keys, first, idleInUpdate>>

\* update_local_cbz is called again, with force, on what the first call left
UpdateAgain ==
    /\ pc = "Success"
    /\ first = <<>>
    /\ first' = cbz
    /\ orig' = cbz
    /\ force_overwrite' = TRUE
    /\ chapters' = <<>>
    /\ sorted_chapter_keys' = <<>>
    /\ bookmarks' = <<>>
    /\ total_images' = 0
    /\ pc' = "start"
    /\ UNCHANGED <<cbz, cbz_path, custom_title, temp_cbz, idleInUpdate>>

NextUpdate ==
    \/ UpdateSkipNonCbz
    \/ UpdateNotZip
    \/ UpdateSkipHasXml
    \/ UpdateSkipNoImages
    \/ UpdateSkipInference
    \/ UpdateReadRaises
    \/ UpdateAnalyse
    \/ UpdateWrite
    \/ UpdateWriteRaises
    \/ UpdateMove
    \/ UpdateMoveRaises
    \/ UpdateCleanup
    \/ UpdateAgain

SpecUpdate == InitUpdate /\ [][NextUpdate]_vars

(***************************************************************************)
(* Natural order of names: a name is cut into its maximal runs of digits,  *)
(* taken as integers, and its other characters; two names compare by the   *)
(* first piece in which they differ, integers by value, characters by code *)
(* point, an integer before a character.                                   *)
(***************************************************************************)
NaturalPieces(s) ==
    LET F[i \in 1..(Len(s) + 1)] ==
            IF i > Len(s) THEN <<>>
            ELSE IF IsDigit(s[i])
                 THEN <<[digits |-> TRUE, value |-> ToInt(DigitRun(s, i))]>>
                          \o F[i + Len(DigitRun(s, i))]
                 ELSE <<[digits |-> FALSE, value |-> Ord(s[i])]>> \o F[i + 1]
    IN  F[1]

NaturalLess(a, b) ==
    LET pa == NaturalPieces(a)
        pb == NaturalPieces(b)
        n == IF Len(pa) < Len(pb) THEN Len(pa) ELSE Len(pb)
        diff == {i \in 1..n : pa[i] # pb[i]}
        k == CHOOSE i \in diff : \A j \in diff : i <= j
    IN  IF diff = {} THEN Len(pa) < Len(pb)
        ELSE IF pa[k].digits = pb[k].digits THEN pa[k].value < pb[k].value
        ELSE pa[k].digits

(***************************************************************************)
(* C12: in update_local_cbz, of two chapters the one whose key is smaller  *)
(* in natural order gets the smaller bookmark index.                       *)
(***************************************************************************)
C12_NaturalOrder ==
    Len(bookmarks) = Len(sorted_chapter_keys) =>
        \A i, j \in 1..Len(sorted_chapter_keys) :
            NaturalLess(sorted_chapter_keys[i], sorted_chapter_keys[j])
                => bookmarks[i][1] < bookmarks[j][1]

(***************************************************************************)
(* C15: at every moment of update_local_cbz the file at cbz_path holds     *)
(* what it held at the start or, after the move, the complete rebuilt      *)
(* archive; when the call has returned without success the file holds what *)
(* it held at the start and no temporary file is left.                     *)
(***************************************************************************)
\* the archive a complete rebuild of zf gives
CompleteRebuild(zf) ==
    [xml |-> <<generate_comic_info_xml(UpdateTitle(custom_title, cbz_path),
                                       Analysis(zf).counted.bookmarks,
                                       Analysis(zf).counted.index)>>,
     entries |-> RebuiltEntries(Analysis(zf).chapters, zf)]

\* the results update_local_cbz returns without having replaced the archive
Unsuccessful ==
    {"SkipNonCbz", "ErrorNotZip", "SkipHasXml", "SkipNoImages", "SkipInference", "Error"}

C15_AtomicReplace ==
    /\ pc # "Success" => cbz = orig
    /\ pc = "Success" => (cbz = <<CompleteRebuild(orig[1])>> /\ temp_cbz = <<>>)
    /\ pc \in Unsuccessful => temp_cbz = <<>>
    /\ temp_cbz # <<>> => pc \in {"building", "built", "raised"}

\* a call that failed after the temporary archive was opened
C15_Witness ==
    /\ pc = "Error"
    /\ total_images > 0
    /\ cbz = orig
    /\ temp_cbz = <<>>

(***************************************************************************)
(* C16: a second call of update_local_cbz, with force, on what a first     *)
(* call left gives the archive the first call gave.                        *)
(***************************************************************************)
\* the first call met a flat archive or one whose images all lie in
\* directories: none of its images was filed under the empty key
FlatOrGrouped == \A n \in EntryNames(first[1]) : n[1] # "/"

C16_Idempotent ==
    (pc = "Success" /\ first # <<>> /\ FlatOrGrouped) => cbz = first

(***************************************************************************)
(* C18: when every image of a flat archive is filed under the one key of   *)
(* number 0, update_local_cbz returns its skip result, no temporary file   *)
(* is written and the archive is left as it was; for every other flat      *)
(* archive each image is filed, and written, under the key of the number   *)
(* its name holds.                                                         *)
(***************************************************************************)
\* the images of the archive the call started from
OrigImages == Range(ImageFiles(orig[1]))

C18_InferenceFailed ==
    /\ [](/\ pc = "SkipInference" =>
                (cbz = orig /\ temp_cbz = <<>> /\ \A f \in OrigImages : ChapterNum(f) = 0)
          /\ (/\ pc \in {"building", "built", "raised", "Success"}
              /\ first = <<>>
              /\ IsFlat(ImageFiles(orig[1]))) =>
                /\ \E f \in OrigImages : ChapterNum(f) # 0
                /\ \A k \in 1..Len(chapters) :
                      \A f \in Range(chapters[k].items) :
                          chapters[k].key = ChapterKey(ChapterNum(f))
                /\ pc = "Success" =>
                      EntryNames(cbz[1]) =
                          {Join(ChapterKey(ChapterNum(f)), f) : f \in OrigImages})
    /\ [][pc' = "SkipInference" => (temp_cbz = <<>> /\ temp_cbz' = <<>> /\ cbz' = cbz)]_vars

\* a call that met a flat archive none of whose names holds a number
C18_Witness ==
    /\ pc = "SkipInference"
    /\ orig # <<>>
    /\ orig[1].entries # <<>>
    /\ cbz = orig

(***************************************************************************)
(* generate_comic_info_xml on its own: a title, a bookmark list and a page *)
(* count are handed over and the document is returned.                     *)
(***************************************************************************)
\* the series titles handed over: a plain one, one of the four characters
\* the document escapes, and one that holds an entity already
SeriesTitles ==
    { <<"T">>, <<"&", "<", ">", "\"">>, <<"&", "a", "m", "p", ";">> }

\* the chapter titles handed over
ChapterTitles == { <<"A">>, <<"&", "<", ">", "\"">> }

\* the bookmarks handed over: a page index, in 0..total_page_count-1 or
\* not, and a chapter title
BookmarkUniverse == {<<i, t>> : i \in 0..MaxCount, t \in ChapterTitles}

RECURSIVE SeqsUpTo(_, _)
\* the sequences over S of length at most n
SeqsUpTo(S, n) ==
    IF n = 0 THEN {<<>>}
    ELSE LET shorter == SeqsUpTo(S, n - 1)
         IN  shorter \cup {Append(q, x) : q \in {r \in shorter : Len(r) = n - 1}, x \in S}

InitXml ==
    /\ pc = "start"
    /\ manga_title \in SeriesTitles
    /\ bookmarks \in SeqsUpTo(BookmarkUniverse, MaxBookmarks)
    /\ total_page_count \in 0..MaxCount
    /\ xml_content = <<>>
    /\ cbz = <<>>
    /\ orig = <<>>
    /\ total_images = 0
    /\ SyncIdle
    /\ UpdateIdle
    /\ FetchIdle

\* one call of generate_comic_info_xml
Generate ==
    /\ pc = "start"
    /\ xml_content' = <<generate_comic_info_xml(manga_title, bookmarks, total_page_count)>>
    /\ pc' = "generated"
    /\ UNCHANGED <<cbz, orig, bookmarks, total_images, manga_title, total_page_count,
                   syncVars, updateVars, fetchVars>>

NextXml == Generate

SpecXml == InitXml /\ [][NextXml]_vars

\* the document returned, and its page element of index i
Doc == xml_content[1]

PageOf(i) == Doc.pages[i + 1]

\* the bookmarks that start at page index i
StartsAt(i) == {k \in 1..Len(bookmarks) : bookmarks[k][1] = i}

\* a list as create_cbz_archive and update_local_cbz build it: the first
\* chapter starts at page 0, no chapter starts before its predecessor, none
\* after the last page
ReconcilerList ==
    /\ bookmarks # <<>> => bookmarks[1][1] = 0
    /\ \A k \in 1..(Len(bookmarks) - 1) : bookmarks[k][1] <= bookmarks[k + 1][1]
    /\ \A k \in 1..Len(bookmarks) : bookmarks[k][1] <= total_page_count

(***************************************************************************)
(* C17 as stated: the page at the first chapter start carries the type     *)
(* FrontCover; the page at every other chapter start carries the type      *)
(* Story and, as its label, the title of every chapter that starts there;  *)
(* every other page carries no label and no type.                          *)
(***************************************************************************)
C17_OwnTitleAtEveryStart ==
    (pc = "generated" /\ ReconcilerList) =>
        \A i \in 0..(total_page_count - 1) :
            IF StartsAt(i) = {}
            THEN PageOf(i).bookmark = <<>> /\ PageOf(i).type = <<>>
            ELSE IF i = bookmarks[1][1]
                 THEN PageOf(i).type = <<"FrontCover">>
                 ELSE /\ PageOf(i).type = <<"Story">>
                      /\ \A k \in StartsAt(i) :
                            PageOf(i).bookmark = <<EscapeBookmark(bookmarks[k][2])>>

(***************************************************************************)
(* C17 as the code has it: the page at the index of the first bookmark of  *)
(* the list carries the type FrontCover, the page at every other chapter   *)
(* start the type Story; the label of a page at which chapters start is    *)
(* the title of the last of them in the list; every other page carries no  *)
(* label and no type.                                                      *)
(***************************************************************************)
C17_LastTitleAtStart ==
    pc = "generated" =>
        \A i \in 0..(total_page_count - 1) :
            IF StartsAt(i) = {}
            THEN PageOf(i).bookmark = <<>> /\ PageOf(i).type = <<>>
            ELSE /\ PageOf(i).type =
                        <<IF i = bookmarks[1][1] THEN "FrontCover" ELSE "Story">>
                 /\ \E k \in StartsAt(i) :
                        /\ \A j \in StartsAt(i) : j <= k
                        /\ PageOf(i).bookmark = <<EscapeBookmark(bookmarks[k][2])>>

\* a document for a list in which two chapters of different titles start at
\* the same page, which is not the first chapter start
C17_Witness ==
    /\ pc = "generated"
    /\ ReconcilerList
    /\ \E k \in 2..(Len(bookmarks) - 1) :
          /\ bookmarks[k][1] = bookmarks[k + 1][1]
          /\ bookmarks[k][2] # bookmarks[k + 1][2]
          /\ bookmarks[k][1] # bookmarks[1][1]
          /\ bookmarks[k][1] < total_page_count

(***************************************************************************)
(* C19: in the document the series title and the chapter titles hold each  *)
(* of the characters & < > " in its escaped form only, each character      *)
(* escaped once.                                                           *)
(***************************************************************************)
\* a character as the document should hold it
EscapedChar(c) ==
    IF c = "&" THEN Amp
    ELSE IF c = "<" THEN Lt
    ELSE IF c = ">" THEN Gt
    ELSE IF c = "\"" THEN Quot
    ELSE <<c>>

\* a text with each of its characters escaped once
EscapedOnce(s) == Concat(Tuple([i \in 1..Len(s) |-> EscapedChar(s[i])]))

C19_EscapedOnly ==
    pc = "generated" =>
        /\ Doc.series = EscapedOnce(manga_title)
        /\ Doc.title = EscapedOnce(manga_title)
        /\ \A i \in 0..(total_page_count - 1) :
              PageOf(i).bookmark # <<>> =>
                  \E k \in StartsAt(i) :
                      PageOf(i).bookmark = <<EscapedOnce(bookmarks[k][2])>>

(***************************************************************************)
(* C20: the document holds exactly total_page_count page elements, the     *)
(* k-th of them of image index k-1, whatever the bookmark list.            *)
(***************************************************************************)
C20_OnePagePerIndex ==
    pc = "generated" =>
        /\ Doc.pageCount = total_page_count
        /\ Len(Doc.pages) = total_page_count
        /\ \A k \in 1..Len(Doc.pages) : Doc.pages[k].image = k - 1

\* a document for a list that holds an index twice and an index past the
\* last page
C20_Witness ==
    /\ pc = "generated"
    /\ total_page_count >= 1
    /\ \E j, k \in 1..Len(bookmarks) : j # k /\ bookmarks[j][1] = bookmarks[k][1]
    /\ \E k \in 1..Len(bookmarks) : bookmarks[k][1] >= total_page_count

(***************************************************************************)
(* The chapter workers and the page workers of one sync or one new         *)
(* download, step by step.  A ThreadPoolExecutor runs the submitted calls  *)
(* in the order of submission, at most max_workers of them at a time.      *)
(* download_chapter_images is one call of the chapter pool;  it opens a    *)
(* page pool of its own, of which download_image is one call.              *)
(***************************************************************************)
\* a pool that starts every submitted call at once
AlwaysRoom(running, max_workers) == TRUE

\* a pool of max_workers threads takes a queued call when one of them is free
PoolHasRoom(running, max_workers) == running < max_workers

\* the URLs a worker is submitted for: urls_to_download of a sync, which
\* holds one URL per missing slug, chapter_urls of a new download, which
\* holds every listed URL that is not excluded
Submitted ==
    IF mode = "sync"
    THEN IF cbz = <<>> \/ online_urls = <<>> THEN <<>> ELSE UrlsToDownload
    ELSE FilteredUrls

Queued == [status |-> "queued", pages |-> <<>>]

\* output_dir of the i-th submitted call and the file_path of its k-th task
OutputDir(i) == UrlSlug(urls_to_download[i])

FilePath(i, k) == Join(OutputDir(i), PageFileName(k))

\* the calls of the chapter pool a thread is running
ChaptersRunning ==
    {i \in 1..Len(jobs) : jobs[i].status \in {"listing", "paging"}}

\* the calls of the i-th page pool a thread is running
PagesInFlight(i) ==
    {k \in 1..Len(jobs[i].pages) : jobs[i].pages[k] \in {"fetching", "writing"}}

PageSettled(i) ==
    \A k \in 1..Len(jobs[i].pages) :
        jobs[i].pages[k] \in {"downloaded", "failed", "skipped"}

InitFetch ==
    /\ pc = "start"
    /\ mode \in {"sync", "new"}
    /\ chapter_workers \in 1..MaxWorkers
    /\ workers \in 1..MaxWorkers
    /\ jobs = <<>>
    /\ cbz \in IF mode = "sync"
               THEN {<<>>, <<ArchiveOf({})>>, <<ArchiveOf({3})>>}
               ELSE {<<>>}
    /\ orig = cbz
    /\ online_urls \in Listings
    /\ exclude \in SUBSET ExcludeUniverse
    /\ urls_to_download = <<>>
    /\ fetched = <<>>
    /\ downloaded_chapter_paths = <<>>
    /\ files = <<>>
    /\ dirs = {}
    /\ scratch = "none"
    /\ chapter_folders = <<>>
    /\ bookmarks = <<>>
    /\ total_images = 0
    /\ opened = FALSE
    /\ UpdateIdle
    /\ XmlIdle

\* there is nothing to submit: the run ends before a pool is opened
FetchNothing ==
    /\ pc = "start"
    /\ Submitted = <<>>
    /\ pc' = "nothing"
    /\ UNCHANGED <<cbz, orig, bookmarks, total_images, syncVars, updateVars,
                   xmlVars, fetchVars>>

\* the scratch directory is created and one call per URL submitted
FetchDispatch ==
    /\ pc = "start"
    /\ Submitted # <<>>
    /\ urls_to_download' = Submitted
    /\ jobs' = Tuple([i \in 1..Len(Submitted) |-> Queued])
    /\ scratch' = "live"
    /\ pc' = "fetching"
    /\ UNCHANGED <<cbz, orig, bookmarks, total_images, online_urls, exclude,
                   fetched, downloaded_chapter_paths, files, dirs,
                   chapter_folders, opened, updateVars, xmlVars, mode,
                   chapter_workers, workers>>

\* what the steps of the workers leave alone
fetchFrame ==
    <<pc, cbz, orig, bookmarks, total_images, online_urls, exclude,
      urls_to_download, fetched, scratch, chapter_folders, opened, updateVars,
      xmlVars, mode, chapter_workers, workers>>

\* a thread of the chapter pool takes the next queued call, which creates
\* its directory and requests the chapter page
ChapterStart(i) ==
    /\ pc = "fetching"
    /\ jobs[i].status = "queued"
    /\ \A j \in 1..(i - 1) : jobs[j].status # "queued"
    /\ PoolHasRoom(Cardinality(ChaptersRunning), chapter_workers)
    /\ dirs' = dirs \cup {OutputDir(i)}
    /\ jobs' = [jobs EXCEPT ![i].status = "listing"]
    /\ UNCHANGED <<fetchFrame, files, downloaded_chapter_paths>>

\* the request for the chapter page raises a RequestException: None
ChapterError(i) ==
    /\ pc = "fetching"
    /\ jobs[i].status = "listing"
    /\ jobs' = [jobs EXCEPT ![i].status = "error"]
    /\ UNCHANGED <<fetchFrame, files, dirs, downloaded_chapter_paths>>

\* the chapter page holds no image tag: None
ChapterNoPages(i) ==
    /\ pc = "fetching"
    /\ jobs[i].status = "listing"
    /\ jobs' = [jobs EXCEPT ![i].status = "nopages"]
    /\ UNCHANGED <<fetchFrame, files, dirs, downloaded_chapter_paths>>

\* the chapter page holds n image tags: a page pool is opened and one
\* download_image submitted per tag
ChapterListed(i) ==
    /\ pc = "fetching"
    /\ jobs[i].status = "listing"
    /\ \E n \in 1..MaxPages :
          jobs' = [jobs EXCEPT ![i] =
                      [status |-> "paging", pages |-> Tuple([k \in 1..n |-> "queued"])]]
    /\ UNCHANGED <<fetchFrame, files, dirs, downloaded_chapter_paths>>

\* a thread of the page pool takes the next queued download_image, which
\* returns "skipped" if the file exists and requests the image otherwise
PageStart(i, k) ==
    /\ pc = "fetching"
    /\ jobs[i].status = "paging"
    /\ k \in 1..Len(jobs[i].pages)
    /\ jobs[i].pages[k] = "queued"
    /\ \A l \in 1..(k - 1) : jobs[i].pages[l] # "queued"
    /\ PoolHasRoom(Cardinality(PagesInFlight(i)), workers)
    /\ jobs' = [jobs EXCEPT ![i].pages[k] =
                   IF IsFile(files, FilePath(i, k)) THEN "skipped" ELSE "fetching"]
    /\ UNCHANGED <<fetchFrame, files, dirs, downloaded_chapter_paths>>

\* the request for the image raises a RequestException: "failed"
PageFail(i, k) ==
    /\ pc = "fetching"
    /\ jobs[i].status = "paging"
    /\ k \in 1..Len(jobs[i].pages)
    /\ jobs[i].pages[k] = "fetching"
    /\ jobs' = [jobs EXCEPT ![i].pages[k] = "failed"]
    /\ UNCHANGED <<fetchFrame, files, dirs, downloaded_chapter_paths>>

\* the request succeeds and the file is opened for writing, which creates
\* or truncates it
PageOpen(i, k) ==
    /\ pc = "fetching"
    /\ jobs[i].status = "paging"
    /\ k \in 1..Len(jobs[i].pages)
    /\ jobs[i].pages[k] = "fetching"
    /\ files' = (FilePath(i, k) :> "partial") @@ files
    /\ jobs' = [jobs EXCEPT ![i].pages[k] = "writing"]
    /\ UNCHANGED <<fetchFrame, dirs, downloaded_chapter_paths>>

\* the response is copied into the file and the file closed: "downloaded"
PageDone(i, k) ==
    /\ pc = "fetching"
    /\ jobs[i].status = "paging"
    /\ k \in 1..Len(jobs[i].pages)
    /\ jobs[i].pages[k] = "writing"
    /\ files' = (FilePath(i, k) :> "new") @@ files
    /\ jobs' = [jobs EXCEPT ![i].pages[k] = "downloaded"]
    /\ UNCHANGED <<fetchFrame, dirs, downloaded_chapter_paths>>

\* the page pool has run every task: the call returns its directory, which
\* the main thread appends to downloaded_chapter_paths
ChapterDone(i) ==
    /\ pc = "fetching"
    /\ jobs[i].status = "paging"
    /\ PageSettled(i)
    /\ jobs' = [jobs EXCEPT ![i].status = "returned"]
    /\ downloaded_chapter_paths' = Append(downloaded_chapter_paths, OutputDir(i))
    /\ UNCHANGED <<fetchFrame, files, dirs>>

\* every call has returned: the chapter pool is closed
FetchJoin ==
    /\ pc = "fetching"
    /\ \A i \in 1..Len(jobs) : jobs[i].status \in {"error", "nopages", "returned"}
    /\ pc' = "joined"
    /\ UNCHANGED <<cbz, orig, bookmarks, total_images, syncVars, updateVars,
                   xmlVars, fetchVars>>

NextFetch ==
    \/ FetchNothing
    \/ FetchDispatch
    \/ \E i \in 1..Len(jobs) : ChapterStart(i)
    \/ \E i \in 1..Len(jobs) : ChapterError(i)
    \/ \E i \in 1..Len(jobs) : ChapterNoPages(i)
    \/ \E i \in 1..Len(jobs) : ChapterListed(i)
    \/ \E i \in 1..Len(jobs) : \E k \in 1..MaxPages : PageStart(i, k)
    \/ \E i \in 1..Len(jobs) : \E k \in 1..MaxPages : PageFail(i, k)
    \/ \E i \in 1..Len(jobs) : \E k \in 1..MaxPages : PageOpen(i, k)
    \/ \E i \in 1..Len(jobs) : \E k \in 1..MaxPages : PageDone(i, k)
    \/ \E i \in 1..Len(jobs) : ChapterDone(i)
    \/ FetchJoin

SpecFetch == InitFetch /\ [][NextFetch]_vars

\* the network operations under way: the requests for chapter pages and
\* the requests and transfers of images
RECURSIVE SumOver(_, _)
SumOver(S, f) ==
    IF S = {} THEN 0
    ELSE LET x == CHOOSE y \in S : TRUE IN f[x] + SumOver(S \ {x}, f)

NetworkOps ==
    Cardinality({i \in 1..Len(jobs) : jobs[i].status = "listing"})
    + SumOver({i \in 1..Len(jobs) : jobs[i].status = "paging"},
              [i \in 1..Len(jobs) |-> Cardinality(PagesInFlight(i))])

(***************************************************************************)
(* C13: at every moment of a sync or a new download at most                *)
(* chapter_workers chapters are being fetched, at most workers page        *)
(* fetches are in flight within one chapter, and at most                   *)
(* chapter_workers * workers network operations are in flight.             *)
(***************************************************************************)
C13_BoundedConcurrency ==
    /\ Cardinality(ChaptersRunning) <= chapter_workers
    /\ \A i \in 1..Len(jobs) : Cardinality(PagesInFlight(i)) <= workers
    /\ NetworkOps <= chapter_workers * workers

\* both pools are full while a chapter and a page wait for a thread
C13_Witness ==
    /\ pc = "fetching"
    /\ Cardinality(ChaptersRunning) = chapter_workers
    /\ \E j \in 1..Len(jobs) : jobs[j].status = "queued"
    /\ \E i \in 1..Len(jobs) :
          /\ Cardinality(PagesInFlight(i)) = workers
          /\ \E k \in 1..Len(jobs[i].pages) : jobs[i].pages[k] = "queued"

(***************************************************************************)
(* C14: no two workers that run at the same time write the same path, in   *)
(* sync mode and in new-download mode, also when two listed chapter URLs   *)
(* end in the same slug.                                                   *)
(***************************************************************************)
Writing ==
    {t \in (1..Len(jobs)) \X (1..MaxPages) :
        /\ t[2] <= Len(jobs[t[1]].pages)
        /\ jobs[t[1]].pages[t[2]] = "writing"}

C14_DisjointWrites ==
    \A s, t \in Writing : s # t => FilePath(s[1], s[2]) # FilePath(t[1], t[2])

\* in a sync no two workers write the same path
C14_SyncDisjoint == mode = "sync" => C14_DisjointWrites

(***************************************************************************)
(* C21: in the archive update_local_cbz produces, the bookmark index of    *)
(* every chapter equals the number of page entries written before the      *)
(* chapter's first page: bookmarks are computed in the order in which the  *)
(* chapters' pages are written.                                            *)
(***************************************************************************)
\* the positions, in the entries of zf, of the pages filed under key
PagesUnder(zf, key) ==
    {k \in 1..Len(zf.entries) : StartsWith(zf.entries[k].name, key \o <<"/">>)}

\* the number of entries of zf written before the first page of key
WrittenBefore(zf, key) ==
    (CHOOSE k \in PagesUnder(zf, key) : \A l \in PagesUnder(zf, key) : k <= l) - 1

C21_BookmarkAtFirstPage ==
    pc = "Success" =>
        \A i \in 1..Len(sorted_chapter_keys) :
            /\ PagesUnder(cbz[1], sorted_chapter_keys[i]) # {}
            /\ bookmarks[i][1] = WrittenBefore(cbz[1], sorted_chapter_keys[i])

====
